---- MODULE Spec2Model ----
(***************************************************************************)
(* Brainfuck front end and the two Lamina IR builders of the repository.   *)
(*                                                                         *)
(*   builder = "ir_builder"      src/src/lamina_builder/ir_builder.rs:     *)
(*       build_ir simulates the program while it generates: memory,        *)
(*       position and output_count are compile-time state, every Output    *)
(*       emits write_byte of the simulated cell, every Loop body is        *)
(*       processed a fixed number of times.                                *)
(*   builder = "lamina_builder"  src/src/lamina_builder.rs:                *)
(*       build_ir emits one IR instruction group per command and           *)
(*       loop_start/loop_body/loop_end blocks per loop; tape and data_ptr  *)
(*       are run-time state of the generated artifact.                     *)
(*                                                                         *)
(* The variables memory/position hold the tape and the pointer of          *)
(* whichever builder the run uses (tape/data_ptr in lamina_builder.rs).    *)
(* output is the sequence of bytes handed to write_byte; output_count is   *)
(* build_ir's counter in ir_builder.rs and, for lamina_builder.rs, the     *)
(* number of Output groups executed.                                       *)
(*                                                                         *)
(* The IR of lamina_builder.rs is read with var("data_ptr") standing for   *)
(* the value kept in data_ptr and with control falling from one block into *)
(* the next; op_counter, which no instruction reads back into the tape,    *)
(* the pointer or the output, is left out. An access through               *)
(* getelementptr outside the tape either ends the process (RtFault) or     *)
(* goes on with any loaded value and the store landing outside the tape.   *)
(*                                                                         *)
(* src/src/lexer.rs is modelled by the call of parse_brainfuck: source is  *)
(* the &str, lexer the Lexer (chars still unread, position), frames the    *)
(* calls of parse and parse_loop that are open, each with its local nodes, *)
(* result what parse_brainfuck returned. earlier remembers the first call  *)
(* of a sequence of calls.                                                 *)
(*                                                                         *)
(* brainfuck_to_binary is modelled by what it does to the file             *)
(* "<output_path>.lamina": lamina_file is that file, binary the call (how  *)
(* far it is, its local lamina_file_exists, what the compiler answered,    *)
(* what it returned, and the file as it was when the call began). The      *)
(* function of lamina_builder/compiler.rs goes with builder =              *)
(* "ir_builder", that of lamina_builder.rs with builder = "lamina_builder".*)
(***************************************************************************)
EXTENDS Integers, Sequences, FiniteSets, TLC

VARIABLES builder, ast, tape_size, input, phase, memory, position, output,
          output_count, stack, code, pc,
          source, lexer, frames, result, earlier,
          lamina_file, binary

\* What the builders work on.
runvars == <<builder, ast, tape_size, input, phase, memory, position, output,
             output_count, stack, code, pc>>

\* What parse_brainfuck works on.
lexvars == <<source, lexer, frames, result, earlier>>

\* What brainfuck_to_binary works on.
binvars == <<lamina_file, binary>>

vars == <<runvars, lexvars, binvars>>

\* ------------------------------------------------------------- bounds
\* Largest number of AST nodes of an enumerated program.
MaxNodes == 3
\* Largest configured tape_size.
MaxTape == 3
\* Largest factor a, b of the multiplication programs.
MaxFactor == 8
\* Longest input stream.
MaxIn == 1
\* Most bytes the generated artifact of lamina_builder.rs is followed for.
MaxOut == 2
\* How far data_ptr of lamina_builder.rs is followed outside the tape.
MaxOver == 1
\* Steps the canonical evaluator is followed for.
CanonFuel == 120

\* ---------------------------------------------------- program constants
CellModulus == 256
LoopRepeat == 5
InitCells == 2

\* ------------------------------------------------------------- the AST
Commands == {"Right", "Left", "Increment", "Decrement", "Output", "Input"}

Command(c) == [kind |-> "Command", cmd |-> c, body |-> <<>>]

Loop(b) == [kind |-> "Loop", cmd |-> "Loop", body |-> b]

RECURSIVE Forests(_)
\* AST nodes with exactly n nodes in all.
Trees(n) ==
    (IF n = 1 THEN {Command(c) : c \in Commands} ELSE {})
        \cup (IF n >= 1 THEN {Loop(b) : b \in Forests(n - 1)} ELSE {})

\* Node sequences with exactly n nodes in all.
Forests(n) ==
    IF n = 0 THEN {<<>>}
    ELSE UNION {{<<t>> \o f : t \in Trees(k), f \in Forests(n - k)} : k \in 1..n}

RECURSIVE Repeat(_, _)
Repeat(x, n) == IF n = 0 THEN <<>> ELSE <<x>> \o Repeat(x, n - 1)

\* The AST of  +^a [ > +^b < - ] > .
Mul(a, b) ==
    Repeat(Command("Increment"), a)
        \o <<Loop(<<Command("Right")>> \o Repeat(Command("Increment"), b)
                    \o <<Command("Left"), Command("Decrement")>>)>>
        \o <<Command("Right"), Command("Output")>>

MulPrograms == {Mul(a, b) : a \in 0..MaxFactor, b \in 0..MaxFactor}

Programs == UNION {Forests(n) : n \in 0..MaxNodes} \cup MulPrograms

InputBytes == {0, 7}

RECURSIVE SeqsUpTo(_, _)
SeqsUpTo(S, n) ==
    IF n = 0 THEN {<<>>}
    ELSE SeqsUpTo(S, n - 1)
            \cup {Append(s, x) : s \in {t \in SeqsUpTo(S, n - 1) : Len(t) = n - 1}, x \in S}

Inputs == SeqsUpTo(InputBytes, MaxIn)

RECURSIVE UsesInput(_)
UsesInput(nodes) ==
    \E k \in DOMAIN nodes :
        IF nodes[k].kind = "Command" THEN nodes[k].cmd = "Input"
        ELSE UsesInput(nodes[k].body)

\* ------------------------------------------- ir_builder.rs: simulation
Min(a, b) == IF a < b THEN a ELSE b

saturating_sub(a, b) == IF a >= b THEN a - b ELSE 0

\* Mutant: the add saturates at 255 (saturating_add for wrapping_add).
wrapping_add_saturating(v) == Min(v + 1, CellModulus - 1)

wrapping_add(v) == (v + 1) % CellModulus

wrapping_sub(v) == (v - 1) % CellModulus

\* `x as i8`, and the byte write_byte puts out for an i8.
AsI8(v) == IF v >= CellModulus \div 2 THEN v - CellModulus ELSE v

ByteOfI8(x) == x % CellModulus

\* if *position < memory.len() { memory[*position] } else { 0 }
CellOr0(mem, pos) == IF pos \in DOMAIN mem THEN mem[pos] ELSE 0

\* Mutant: the value is written into every cell.
StoreIfInside_every_cell(mem, pos, v) == [k \in DOMAIN mem |-> v]

StoreIfInside(mem, pos, v) ==
    IF pos \in DOMAIN mem THEN [mem EXCEPT ![pos] = v] ELSE mem

SimRight(mem, pos) == Min(pos + 1, saturating_sub(Cardinality(DOMAIN mem), 1))

SimLeft(pos) == saturating_sub(pos, 1)

SimIncrement(mem, pos) == StoreIfInside(mem, pos, wrapping_add(CellOr0(mem, pos)))

SimDecrement(mem, pos) == StoreIfInside(mem, pos, wrapping_sub(CellOr0(mem, pos)))

\* Mutant: the cell at index 0 is written, whatever the position.
SimOutputByte_first_cell(mem, pos) == ByteOfI8(AsI8(CellOr0(mem, 0)))

\* The byte the emitted write_byte(var("output_val")) writes.
SimOutputByte(mem, pos) == ByteOfI8(AsI8(CellOr0(mem, pos)))

Top == stack[Len(stack)]

TopNode == Top.nodes[Top.i]

SetTop(f) == [stack EXCEPT ![Len(stack)] = f]

Simulating == builder = "ir_builder" /\ phase = "run"

AtNode == Len(stack) > 0 /\ Top.i <= Len(Top.nodes)

\* build_ir up to the call of process_ast_with_lamina.
SimBuildIr ==
    /\ builder = "ir_builder" /\ phase = "init"
    /\ phase' = "run"
    /\ memory' = [k \in 0..(tape_size - 1) |-> 0]
    /\ position' = 0
    /\ output_count' = 0
    /\ output' = <<>>
    /\ stack' = <<[kind |-> "ast", nodes |-> ast, i |-> 1, iter |-> 0]>>
    /\ UNCHANGED <<lexvars, binvars, builder, ast, tape_size, input, code, pc>>

\* process_command_with_lamina on the node the traversal is at.
SimCommand ==
    /\ Simulating /\ AtNode /\ TopNode.kind = "Command"
    /\ LET c == TopNode.cmd IN
        /\ position' = CASE c = "Right" -> SimRight(memory, position)
                         [] c = "Left" -> SimLeft(position)
                         [] OTHER -> position
        /\ memory' = CASE c = "Increment" -> SimIncrement(memory, position)
                       [] c = "Decrement" -> SimDecrement(memory, position)
                       [] OTHER -> memory
        /\ output' = IF c = "Output"
                     THEN Append(output, SimOutputByte(memory, position))
                     ELSE output
        /\ output_count' = IF c = "Output" THEN output_count + 1 ELSE output_count
    /\ stack' = SetTop([Top EXCEPT !.i = @ + 1])
    /\ UNCHANGED <<lexvars, binvars, builder, ast, tape_size, input, phase, code, pc>>

\* process_loop_with_lamina is called: the first of its passes begins.
SimLoopEnter ==
    /\ Simulating /\ AtNode /\ TopNode.kind = "Loop"
    /\ stack' = Append(stack, [kind |-> "loop", nodes |-> TopNode.body, i |-> 1, iter |-> 0])
    /\ UNCHANGED <<lexvars, binvars, builder, ast, tape_size, input, phase, memory, position, output,
                   output_count, code, pc>>

\* Mutant: the passes go on while the cell at the pointer is not 0.
SimLoopAgain_while_nonzero ==
    /\ Simulating /\ Len(stack) > 0 /\ Top.kind = "loop"
    /\ Top.i > Len(Top.nodes) /\ CellOr0(memory, position) # 0
    /\ stack' = SetTop([Top EXCEPT !.i = 1])
    /\ UNCHANGED <<lexvars, binvars, builder, ast, tape_size, input, phase, memory, position, output,
                   output_count, code, pc>>

\* Mutant: a pass takes the nodes out of the body it went through.
SimLoopAgain_drains_body ==
    /\ Simulating /\ Len(stack) > 0 /\ Top.kind = "loop"
    /\ Top.i > Len(Top.nodes) /\ Top.iter + 1 < LoopRepeat
    /\ stack' = SetTop([Top EXCEPT !.i = 1, !.iter = @ + 1, !.nodes = <<>>])
    /\ UNCHANGED <<lexvars, binvars, builder, ast, tape_size, input, phase, memory, position, output,
                   output_count, code, pc>>

\* for _ in 0..5: the body is through and another pass is left.
SimLoopAgain ==
    /\ Simulating /\ Len(stack) > 0 /\ Top.kind = "loop"
    /\ Top.i > Len(Top.nodes) /\ Top.iter + 1 < LoopRepeat
    /\ stack' = SetTop([Top EXCEPT !.i = 1, !.iter = @ + 1])
    /\ UNCHANGED <<lexvars, binvars, builder, ast, tape_size, input, phase, memory, position, output,
                   output_count, code, pc>>

\* The last pass is through: loop_marker is emitted and the call returns.
SimLoopReturn ==
    /\ Simulating /\ Len(stack) > 1 /\ Top.kind = "loop"
    /\ Top.i > Len(Top.nodes) /\ Top.iter + 1 >= LoopRepeat
    /\ LET rest == SubSeq(stack, 1, Len(stack) - 1) IN
        stack' = [rest EXCEPT ![Len(rest)] = [@ EXCEPT !.i = @ + 1]]
    /\ UNCHANGED <<lexvars, binvars, builder, ast, tape_size, input, phase, memory, position, output,
                   output_count, code, pc>>

\* process_ast_with_lamina returns Ok(()); ret_void; build.
SimFinish ==
    /\ Simulating /\ Len(stack) = 1 /\ Top.kind = "ast" /\ Top.i > Len(Top.nodes)
    /\ phase' = "done"
    /\ stack' = <<>>
    /\ UNCHANGED <<lexvars, binvars, builder, ast, tape_size, input, memory, position, output,
                   output_count, code, pc>>

\* --------------------------------- lamina_builder.rs: the generated IR
\* One entry per instruction group build_ir emits: the group of a command
\* (op = the command), a block label, the guard's cmp + branch, the back
\* jump, and ret_void.
Ins(op, kind, n) == [op |-> op, kind |-> kind, n |-> n]

RECURSIVE GenLoop(_, _)
RECURSIVE GenBody(_, _)
\* The body of process_loop_with_lamina's for: commands as they are, a nested
\* loop with _index + 1.
GenBody(body, index) ==
    IF body = <<>> THEN <<>>
    ELSE (IF Head(body).kind = "Command"
          THEN <<Ins(Head(body).cmd, "", 0)>>
          ELSE GenLoop(Head(body).body, index + 1))
            \o GenBody(Tail(body), index)

GenLoop(body, index) ==
    <<Ins("block", "loop_start", index), Ins("branch", "", index),
      Ins("block", "loop_body", index)>>
        \o GenBody(body, index)
        \o <<Ins("jump", "", index), Ins("block", "loop_end", index)>>

RECURSIVE GenAst(_, _)
\* process_ast_with_lamina's for (i, node) in ast.iter().enumerate().
GenAst(nodes, i) ==
    IF nodes = <<>> THEN <<>>
    ELSE (IF Head(nodes).kind = "Command"
          THEN <<Ins(Head(nodes).cmd, "", 0)>>
          ELSE GenLoop(Head(nodes).body, i))
            \o GenAst(Tail(nodes), i + 1)

GenModule(nodes) == GenAst(nodes, 0) \o <<Ins("ret", "", 0)>>

\* Values a load outside the tape may yield.
OobBytes == {0, 1}

\* Values readbyte may yield once the input is exhausted (Lamina's choice).
EofBytes == {0, 255}

\* store data_ptr, new_pos_right: within_bounds_right is computed and never used.
IrRight(ptr) == ptr + 1

\* store data_ptr, new_pos_left: within_bounds_left is computed and never used.
IrLeft(ptr) == ptr - 1

\* add.i8 / sub.i8 of the loaded cell and 1.
IrAddI8(v) == (v + 1) % CellModulus

\* Mutant: the difference is not truncated to 8 bits.
IrSubI8_untruncated(v) == v - 1

IrSubI8(v) == (v - 1) % CellModulus

\* The byte writebyte puts out for the loaded cell.
IrOutputByte(v) == v

InTape(ptr) == ptr \in DOMAIN memory

\* What load cell_ptr may yield.
Loads(ptr) == IF InTape(ptr) THEN {memory[ptr]} ELSE OobBytes

\* store cell_ptr, v: outside the tape the byte lands in other memory.
Stored(ptr, v) == IF InTape(ptr) THEN [memory EXCEPT ![ptr] = v] ELSE memory

Running == builder = "lamina_builder" /\ phase = "run"

Op == code[pc]

\* The blocks a label names.
Blocks(kind, n) ==
    {j \in DOMAIN code : code[j].op = "block" /\ code[j].kind = kind /\ code[j].n = n}

\* build_ir, then the artifact's start: heap tape, data_ptr = 0, and the
\* stores to cells 0 and 1; the other cells hold what the heap held.
RtStart ==
    /\ builder = "lamina_builder" /\ phase = "init"
    /\ code' = GenModule(ast)
    /\ pc' = 1
    /\ \E heap \in [0..(tape_size - 1) -> OobBytes] :
        memory' = [k \in 0..(tape_size - 1) |-> IF k < InitCells THEN 0 ELSE heap[k]]
    /\ position' = 0
    /\ output' = <<>>
    /\ output_count' = 0
    /\ phase' \in (IF tape_size < InitCells THEN {"run", "crashed"} ELSE {"run"})
    /\ UNCHANGED <<lexvars, binvars, builder, ast, tape_size, input, stack>>

RtMove ==
    /\ Running /\ Op.op \in {"Right", "Left"}
    /\ position' = IF Op.op = "Right" THEN IrRight(position) ELSE IrLeft(position)
    /\ position' \in (0 - MaxOver)..(tape_size - 1 + MaxOver)
    /\ pc' = pc + 1
    /\ UNCHANGED <<lexvars, binvars, builder, ast, tape_size, input, phase, memory, output,
                   output_count, stack, code>>

RtArith ==
    /\ Running /\ Op.op \in {"Increment", "Decrement"}
    /\ \E v \in Loads(position) :
        memory' = Stored(position, IF Op.op = "Increment" THEN IrAddI8(v) ELSE IrSubI8(v))
    /\ pc' = pc + 1
    /\ UNCHANGED <<lexvars, binvars, builder, ast, tape_size, input, phase, position, output,
                   output_count, stack, code>>

RtOutput ==
    /\ Running /\ Op.op = "Output"
    /\ Len(output) < MaxOut
    /\ \E v \in Loads(position) : output' = Append(output, IrOutputByte(v))
    /\ output_count' = output_count + 1
    /\ pc' = pc + 1
    /\ UNCHANGED <<lexvars, binvars, builder, ast, tape_size, input, phase, memory, position,
                   stack, code>>

RtInput ==
    /\ Running /\ Op.op = "Input"
    /\ \E b \in (IF input # <<>> THEN {Head(input)} ELSE EofBytes) :
        memory' = Stored(position, b)
    /\ input' = IF input # <<>> THEN Tail(input) ELSE input
    /\ pc' = pc + 1
    /\ UNCHANGED <<lexvars, binvars, builder, ast, tape_size, phase, position, output,
                   output_count, stack, code>>

\* cmp eq cell_is_zero; br cell_is_zero, loop_end_n, loop_body_n.
RtBranch ==
    /\ Running /\ Op.op = "branch"
    /\ \E v \in Loads(position) :
        \E j \in Blocks(IF v = 0 THEN "loop_end" ELSE "loop_body", Op.n) : pc' = j
    /\ UNCHANGED <<lexvars, binvars, builder, ast, tape_size, input, phase, memory, position, output,
                   output_count, stack, code>>

\* jmp loop_start_n.
RtJump ==
    /\ Running /\ Op.op = "jump"
    /\ \E j \in Blocks("loop_start", Op.n) : pc' = j
    /\ UNCHANGED <<lexvars, binvars, builder, ast, tape_size, input, phase, memory, position, output,
                   output_count, stack, code>>

\* A block label: control falls into the block.
RtBlock ==
    /\ Running /\ Op.op = "block"
    /\ pc' = pc + 1
    /\ UNCHANGED <<lexvars, binvars, builder, ast, tape_size, input, phase, memory, position, output,
                   output_count, stack, code>>

RtRet ==
    /\ Running /\ Op.op = "ret"
    /\ phase' = "done"
    /\ UNCHANGED <<lexvars, binvars, builder, ast, tape_size, input, memory, position, output,
                   output_count, stack, code, pc>>

\* An access outside the tape may also end the process.
RtFault ==
    /\ Running
    /\ Op.op \in {"Increment", "Decrement", "Output", "Input", "branch"}
    /\ ~InTape(position)
    /\ phase' = "crashed"
    /\ UNCHANGED <<lexvars, binvars, builder, ast, tape_size, input, memory, position, output,
                   output_count, stack, code, pc>>

\* ------------------------------- canonical evaluator (spec section 4.2)
Max(a, b) == IF a > b THEN a ELSE b

\* One command on st = [mem, pos, out, inp, fuel]. Exhausted input leaves the
\* cell unchanged.
CanonCommand(c, st) ==
    LET s == [st EXCEPT !.fuel = @ - 1] IN
    CASE c = "Right" -> [s EXCEPT !.pos = Min(@ + 1, Cardinality(DOMAIN st.mem) - 1)]
      [] c = "Left" -> [s EXCEPT !.pos = Max(@ - 1, 0)]
      [] c = "Increment" -> [s EXCEPT !.mem[st.pos] = (@ + 1) % CellModulus]
      [] c = "Decrement" -> [s EXCEPT !.mem[st.pos] = (@ - 1) % CellModulus]
      [] c = "Output" -> [s EXCEPT !.out = Append(@, st.mem[st.pos])]
      [] OTHER -> IF st.inp = <<>> THEN s
                  ELSE [s EXCEPT !.mem[st.pos] = Head(st.inp), !.inp = Tail(@)]

RECURSIVE CanonNodes(_, _)
RECURSIVE CanonLoop(_, _)
\* The nodes in order; fuel 0 means the evaluation was cut short.
CanonNodes(nodes, st) ==
    IF nodes = <<>> \/ st.fuel = 0 THEN st
    ELSE CanonNodes(Tail(nodes),
                    IF Head(nodes).kind = "Command"
                    THEN CanonCommand(Head(nodes).cmd, st)
                    ELSE CanonLoop(Head(nodes).body, st))

\* while tape[pointer] != 0 { body }
CanonLoop(body, st) ==
    IF st.fuel = 0 \/ st.mem[st.pos] = 0 THEN st
    ELSE CanonLoop(body, CanonNodes(body, [st EXCEPT !.fuel = @ - 1]))

CanonEval(nodes, size, inp) ==
    CanonNodes(nodes, [mem |-> [k \in 0..(size - 1) |-> 0], pos |-> 0,
                       out |-> <<>>, inp |-> inp, fuel |-> CanonFuel])

\* ------------------------------------------------- lexer.rs: the parser
\* Longest enumerated source.
MaxLen == 3

\* The characters the enumerated sources are made of: two commands, the
\* brackets, a comment character and the newline.
SourceChars == {"+", ">", "[", "]", "x", "\n"}

\* The sources of the tests of lexer.rs.
TestSources ==
    { <<"+", "-", ">", "<", ".", ",">>,
      <<"[", "+", "-", "]">>,
      <<"[", "+", "[", "+", "-", "]", "]">>,
      <<"H", "e", "l", "l", "o", " ", "+", " ", "W", "o", "r", "l", "d", " ",
        "-", " ", "T", "e", "s", "t">>,
      <<"+", "]">>,
      <<"[", "+">> }

Sources == SeqsUpTo(SourceChars, MaxLen) \cup TestSources

\* Characters written into a source as comments.
CommentChars == {"x", "\n"}

\* s with comment character c put in before its k-th character.
InsertAt(s, k, c) == SubSeq(s, 1, k - 1) \o <<c>> \o SubSeq(s, k, Len(s))

Insertions(s) == {InsertAt(s, k, c) : k \in 1..(Len(s) + 1), c \in CommentChars}

\* A source a call between two calls on s may be given.
OtherSource == <<"\n", "]">>

\* s with a bracket more at its end.
Extensions(s) == {Append(s, c) : c \in {"[", "]"}}

\* The sources of the calls that follow a first call on s.
Followups(s) == {s, OtherSource} \cup Insertions(s) \cup Extensions(s)

\* Mutant: columns are counted from 0.
Position_new_column_zero == [line |-> 1, column |-> 0]

Position_new == [line |-> 1, column |-> 1]

\* Mutant: a newline adds a line and leaves the column where it was.
advance_column_kept(pos, c) ==
    IF c = "\n" THEN [pos EXCEPT !.line = @ + 1]
    ELSE [pos EXCEPT !.column = @ + 1]

\* Mutant: a newline advances the column like any other character.
advance_ignores_newline(pos, c) == [pos EXCEPT !.column = @ + 1]

advance(pos, c) ==
    IF c = "\n" THEN [line |-> pos.line + 1, column |-> 1]
    ELSE [pos EXCEPT !.column = @ + 1]

\* Mutant: '>' and '<' are taken for each other.
parse_command_swapped(c) ==
    CASE c = ">" -> "Left"
      [] c = "<" -> "Right"
      [] c = "+" -> "Increment"
      [] c = "-" -> "Decrement"
      [] c = "." -> "Output"
      [] c = "," -> "Input"
      [] OTHER -> "None"

\* Mutant: the comment character x is taken for a command.
parse_command_comment_is_command(c) ==
    CASE c = ">" -> "Right"
      [] c = "<" -> "Left"
      [] c \in {"+", "x"} -> "Increment"
      [] c = "-" -> "Decrement"
      [] c = "." -> "Output"
      [] c = "," -> "Input"
      [] OTHER -> "None"

parse_command(c) ==
    CASE c = ">" -> "Right"
      [] c = "<" -> "Left"
      [] c = "+" -> "Increment"
      [] c = "-" -> "Decrement"
      [] c = "." -> "Output"
      [] c = "," -> "Input"
      [] OTHER -> "None"

\* Mutant: the position of the lexer of the call before is kept.
Lexer_new_keeps_position(src) == [chars |-> src, position |-> lexer.position]

Lexer_new(src) == [chars |-> src, position |-> Position_new]

NoPosition == [line |-> 0, column |-> 0]

\* parse_brainfuck has not returned yet.
NoResult == [kind |-> "None", ast |-> <<>>, position |-> NoPosition]

Ok(nodes) == [kind |-> "Ok", ast |-> nodes, position |-> NoPosition]

\* Err(LexerError::kind(pos)): no AST comes with it.
Err(kind, pos) == [kind |-> kind, ast |-> <<>>, position |-> pos]

\* No call has returned yet.
NoCall == [source |-> <<>>, result |-> NoResult, others |-> FALSE]

Frame(fn, nodes) == [fn |-> fn, nodes |-> nodes]

\* The call of parse or parse_loop that is running.
Cur == frames[Len(frames)]

Parsing == builder = "lexer" /\ result = NoResult /\ Len(frames) > 0

\* self.chars.peek()
Peeked == Head(lexer.chars)

\* Mutant: the character is peeked at and never taken.
Consumed_peeked_only == [chars |-> lexer.chars, position |-> advance(lexer.position, Peeked)]

\* self.chars.next(); self.position.advance(c);
Consumed == [chars |-> Tail(lexer.chars), position |-> advance(lexer.position, Peeked)]

\* nodes.push(node) in the running call.
Pushed(node) == [frames EXCEPT ![Len(frames)].nodes = Append(@, node)]

\* Mutant: the command is pushed onto the nodes of parse, whatever call runs.
PushedCommand_top_level(cmd) == [frames EXCEPT ![1].nodes = Append(@, Command(cmd))]

PushedCommand(cmd) == Pushed(Command(cmd))

\* Mutant: the body is spliced into the caller's nodes, without a Loop node.
Returned_spliced(fs) ==
    LET rest == SubSeq(fs, 1, Len(fs) - 1) IN
        [rest EXCEPT ![Len(rest)].nodes = @ \o fs[Len(fs)].nodes]

\* parse_loop returns Ok(nodes) and its caller pushes AstNode::Loop(nodes).
Returned(fs) ==
    LET rest == SubSeq(fs, 1, Len(fs) - 1) IN
        [rest EXCEPT ![Len(rest)].nodes = Append(@, Loop(fs[Len(fs)].nodes))]

\* Mutant: the end of the input ends every call with Ok.
AtEndOfInput_always_ok(frame, pos) == Ok(frame.nodes)

\* What a call returns once peek() is None.
AtEndOfInput(frame, pos) ==
    IF frame.fn = "parse" THEN Ok(frame.nodes)
    ELSE Err("UnexpectedEndOfInput", pos)

\* No Lexer has been made yet.
NoLexer == [chars |-> <<>>, position |-> NoPosition]

\* The source of the first call of the sequence.
FirstSource == IF earlier = NoCall THEN source ELSE earlier.source

\* parse_brainfuck(src) is called: Lexer::new(src), and parse begins. A call
\* after the first remembers what the first returned.
ParseBrainfuck ==
    /\ builder = "lexer" /\ frames = <<>>
    /\ \E src \in (IF result = NoResult THEN Sources ELSE Followups(FirstSource)) :
        /\ source' = src
        /\ lexer' = Lexer_new(src)
    /\ frames' = <<Frame("parse", <<>>)>>
    /\ result' = NoResult
    /\ earlier' = IF result = NoResult THEN NoCall
                  ELSE IF earlier = NoCall
                       THEN [source |-> source, result |-> result, others |-> FALSE]
                       ELSE [earlier EXCEPT !.others = @ \/ source # earlier.source]
    /\ UNCHANGED <<runvars, binvars>>

\* if let Some(command) = self.parse_command(c)
LexCommand ==
    /\ Parsing /\ lexer.chars # <<>>
    /\ parse_command(Peeked) # "None"
    /\ lexer' = Consumed
    /\ frames' = PushedCommand(parse_command(Peeked))
    /\ UNCHANGED <<runvars, binvars, source, result, earlier>>

\* else if c == '[': the call of parse_loop.
LexOpen ==
    /\ Parsing /\ lexer.chars # <<>>
    /\ parse_command(Peeked) = "None" /\ Peeked = "["
    /\ lexer' = Consumed
    /\ frames' = Append(frames, Frame("parse_loop", <<>>))
    /\ UNCHANGED <<runvars, binvars, source, result, earlier>>

\* else if c == ']' in parse_loop: return Ok(nodes).
LexClose ==
    /\ Parsing /\ lexer.chars # <<>>
    /\ parse_command(Peeked) = "None" /\ Peeked = "]"
    /\ Cur.fn = "parse_loop"
    /\ lexer' = Consumed
    /\ frames' = Returned(frames)
    /\ UNCHANGED <<runvars, binvars, source, result, earlier>>

\* Mutant: a ']' that closes nothing is skipped like a comment.
LexUnmatched_skipped ==
    /\ Parsing /\ lexer.chars # <<>>
    /\ parse_command(Peeked) = "None" /\ Peeked = "]"
    /\ Cur.fn = "parse"
    /\ lexer' = Consumed
    /\ UNCHANGED <<runvars, binvars, source, frames, result, earlier>>

\* else if c == ']' in parse: return Err(UnmatchedClosingBracket(self.position)).
LexUnmatched ==
    /\ Parsing /\ lexer.chars # <<>>
    /\ parse_command(Peeked) = "None" /\ Peeked = "]"
    /\ Cur.fn = "parse"
    /\ result' = Err("UnmatchedClosingBracket", lexer.position)
    /\ frames' = <<>>
    /\ UNCHANGED <<runvars, binvars, source, lexer, earlier>>

\* else: skip comments and whitespace.
LexSkip ==
    /\ Parsing /\ lexer.chars # <<>>
    /\ parse_command(Peeked) = "None" /\ Peeked \notin {"[", "]"}
    /\ lexer' = Consumed
    /\ UNCHANGED <<runvars, binvars, source, frames, result, earlier>>

\* peek() is None: parse returns Ok(nodes); parse_loop returns
\* Err(UnexpectedEndOfInput(self.position)), which ? hands up to parse_brainfuck.
LexEnd ==
    /\ Parsing /\ lexer.chars = <<>>
    /\ result' = AtEndOfInput(Cur, lexer.position)
    /\ frames' = <<>>
    /\ UNCHANGED <<runvars, binvars, source, lexer, earlier>>

\* ------------------------------------------------- brainfuck_to_binary
Content(kind, nodes) == [kind |-> kind, ast |-> nodes]

NoFile == [exists |-> FALSE, content |-> Content("none", <<>>)]

File(content) == [exists |-> TRUE, content |-> content]

\* module.to_string() of the module build_ir gives for the AST.
IrSource == Content(builder, ast)

\* What "<output_path>.lamina" may be when the call begins: not there, the IR
\* main.rs saved there, or something else.
FilesBefore == {NoFile, File(IrSource), File(Content("other", <<>>))}

\* No call of brainfuck_to_binary.
NoBinaryCall ==
    [pc |-> "none", lamina_file_exists |-> FALSE, compiled |-> FALSE,
     result |-> "None", before |-> NoFile]

\* compiler.rs writes the file only if it was not there; lamina_builder.rs
\* always.
WritesFile == IF builder = "ir_builder" THEN ~binary.lamina_file_exists ELSE TRUE

\* compiler.rs removes the file only if it was not there; lamina_builder.rs
\* always.
RemovesFile == IF builder = "ir_builder" THEN ~binary.lamina_file_exists ELSE TRUE

\* compiler.rs: build_ir, to_string, and Path::new(&lamina_file).exists().
BinCheck ==
    /\ builder = "ir_builder" /\ binary.pc = "call"
    /\ binary' = [binary EXCEPT !.pc = "checked",
                                !.lamina_file_exists = lamina_file.exists]
    /\ UNCHANGED <<runvars, lexvars, lamina_file>>

\* The call is at std::fs::write, or where compiler.rs leaves it out.
AtWrite ==
    \/ builder = "ir_builder" /\ binary.pc = "checked"
    \/ builder = "lamina_builder" /\ binary.pc = "call"

\* std::fs::write(&lamina_file, &ir_source) succeeds.
BinWrite ==
    /\ AtWrite /\ WritesFile
    /\ lamina_file' = File(IrSource)
    /\ binary' = [binary EXCEPT !.pc = "written"]
    /\ UNCHANGED <<runvars, lexvars>>

\* std::fs::write fails and ? returns the error: the file is as it was, or
\* created and not written through.
BinWriteFails ==
    /\ AtWrite /\ WritesFile
    /\ lamina_file' \in {lamina_file, File(Content("partial", <<>>))}
    /\ binary' = [binary EXCEPT !.pc = "returned", !.result = "WriteFailed"]
    /\ UNCHANGED <<runvars, lexvars>>

\* compiler.rs: the file was there and is not written.
BinKeep ==
    /\ AtWrite /\ ~WritesFile
    /\ binary' = [binary EXCEPT !.pc = "written"]
    /\ UNCHANGED <<runvars, lexvars, lamina_file>>

\* compile_with_lamina_library / compile_with_nightly_lamina: Ok or Err.
BinCompile ==
    /\ builder \in {"ir_builder", "lamina_builder"} /\ binary.pc = "written"
    /\ \E ok \in BOOLEAN : binary' = [binary EXCEPT !.pc = "compiled", !.compiled = ok]
    /\ UNCHANGED <<runvars, lexvars, lamina_file>>

\* Either arm of the match: the clean-up, and the return.
BinReturn ==
    /\ builder \in {"ir_builder", "lamina_builder"} /\ binary.pc = "compiled"
    /\ lamina_file' = IF RemovesFile THEN NoFile ELSE lamina_file
    /\ binary' = [binary EXCEPT !.pc = "returned",
                                !.result = IF binary.compiled THEN "Ok" ELSE "CompileFailed"]
    /\ UNCHANGED <<runvars, lexvars>>

\* ------------------------------------------------- counting the nodes
\* Mutant: the nodes inside a Loop are not counted.
count_operations_top_level(nodes) ==
    <<Cardinality({k \in DOMAIN nodes : nodes[k].kind = "Command"}),
      Cardinality({k \in DOMAIN nodes : nodes[k].kind = "Loop"})>>

RECURSIVE count_operations(_)
\* utils.rs, and the copies in ir_builder.rs and lamina_builder.rs: the pair
\* (commands, loops).
count_operations(nodes) ==
    IF nodes = <<>> THEN <<0, 0>>
    ELSE LET rest == count_operations(Tail(nodes)) IN
        IF Head(nodes).kind = "Command" THEN <<rest[1] + 1, rest[2]>>
        ELSE LET sub == count_operations(Head(nodes).body) IN
            <<rest[1] + sub[1], rest[2] + 1 + sub[2]>>

RECURSIVE count_nodes(_)
\* main.rs.
count_nodes(nodes) ==
    IF nodes = <<>> THEN <<0, 0>>
    ELSE LET rest == count_nodes(Tail(nodes)) IN
        IF Head(nodes).kind = "Command" THEN <<rest[1] + 1, rest[2]>>
        ELSE LET sub == count_nodes(Head(nodes).body) IN
            <<rest[1] + sub[1], rest[2] + 1 + sub[2]>>

\* ----------------------------------------------------------- the claims
CurCell == memory[position]

ExecRight ==
    \/ SimCommand /\ TopNode.cmd = "Right"
    \/ RtMove /\ Op.op = "Right"

ExecLeft ==
    \/ SimCommand /\ TopNode.cmd = "Left"
    \/ RtMove /\ Op.op = "Left"

ExecIncrement ==
    \/ SimCommand /\ TopNode.cmd = "Increment"
    \/ RtArith /\ Op.op = "Increment"

ExecDecrement ==
    \/ SimCommand /\ TopNode.cmd = "Decrement"
    \/ RtArith /\ Op.op = "Decrement"

ExecOutput ==
    \/ SimCommand /\ TopNode.cmd = "Output"
    \/ RtOutput

\* The traversal of ir_builder.rs has just processed command c.
JustDid(c) ==
    /\ Simulating /\ Len(stack) > 0
    /\ Top.i > 1 /\ Top.i - 1 <= Len(Top.nodes)
    /\ Top.nodes[Top.i - 1] = Command(c)

\* C1: a loop that is reached while tape[pointer] = 0 executes no command of
\* its body: ir_builder.rs processes no body command in the first pass of a
\* loop whose guard cell is 0, and the branch lamina_builder.rs emits goes
\* to loop_end with tape, pointer and output as they were.
C1_LoopEntryGuard ==
    [][/\ (/\ Simulating /\ Len(stack) > 0 /\ Top.kind = "loop"
           /\ Top.iter = 0 /\ Top.i = 1 /\ CellOr0(memory, position) = 0)
            => ~SimCommand
       /\ (RtBranch /\ InTape(position) /\ CurCell = 0)
            => (pc' \in Blocks("loop_end", Op.n)
                /\ UNCHANGED <<memory, position, output>>)]_vars

\* C2: the guard decides every repetition: a pass over a body that starts
\* with tape[pointer] = 0 processes no command, and control leaves a loop
\* only when tape[pointer] = 0.
C2_ConditionDrivenRepetition ==
    [][/\ (/\ Simulating /\ Len(stack) > 0 /\ Top.kind = "loop"
           /\ Top.i = 1 /\ CellOr0(memory, position) = 0)
            => ~SimCommand
       /\ SimLoopReturn => CellOr0(memory, position) = 0
       /\ (RtBranch /\ InTape(position))
            => IF CurCell = 0 THEN pc' \in Blocks("loop_end", Op.n)
               ELSE pc' \in Blocks("loop_body", Op.n)]_vars

\* C3: +^a [ > +^b < - ] > . on an empty input and a tape of at least two
\* cells writes exactly one byte, (a * b) mod 256.
C3_Multiplication ==
    \A a, b \in 0..MaxFactor :
        (phase = "done" /\ ast = Mul(a, b) /\ input = <<>> /\ tape_size >= 2)
            => output = <<(a * b) % CellModulus>>

\* C4: the bytes the generated artifact writes are those of the canonical
\* evaluator on the same AST and input (stated for programs without Input
\* whose canonical evaluation ends within CanonFuel steps).
C4_GeneratorMatchesEvaluator ==
    (phase = "done" /\ ~UsesInput(ast) /\ tape_size >= InitCells)
        => LET r == CanonEval(ast, tape_size, input) IN
            r.fuel > 0 => output = r.out

\* C5: MoveRight sets pointer to min(pointer + 1, tape_length - 1).
C5_MoveRightSaturates ==
    [][ExecRight => position' = Min(position + 1, tape_size - 1)]_vars

\* C6: MoveLeft sets pointer to max(pointer - 1, 0).
C6_MoveLeftSaturates ==
    [][ExecLeft => position' = Max(position - 1, 0)]_vars

\* C7: while a run lasts, 0 <= pointer <= tape_length - 1.
C7_PointerInTape ==
    phase \in {"run", "done"} => position \in 0..(tape_size - 1)

\* C8: Increment sets tape[pointer] to (tape[pointer] + 1) mod 256, and
\* every cell stays in 0..255.
C8_IncrementWraps ==
    [][/\ (ExecIncrement /\ InTape(position))
            => memory' = [memory EXCEPT ![position] = (memory[position] + 1) % 256]
       /\ \A k \in DOMAIN memory' : memory'[k] \in 0..255]_vars

\* C8 witness: ir_builder.rs has just incremented a cell from 255 to 0.
C8_Witness == JustDid("Increment") /\ CurCell = 0

\* C9: Decrement sets tape[pointer] to (tape[pointer] - 1) mod 256, and
\* every cell stays in 0..255.
C9_DecrementWraps ==
    [][/\ (ExecDecrement /\ InTape(position))
            => memory' = [memory EXCEPT ![position] = (memory[position] + 255) % 256]
       /\ \A k \in DOMAIN memory' : memory'[k] \in 0..255]_vars

\* C9 witness: ir_builder.rs has just decremented a cell from 0 to 255.
C9_Witness == JustDid("Decrement") /\ CurCell = 255

\* C10: an Output appends exactly one byte, tape[pointer]; nothing else
\* changes output; the bytes written number the Outputs executed.
C10_OutputAppendOnly ==
    [][/\ ExecOutput
            => /\ Len(output') = Len(output) + 1
               /\ SubSeq(output', 1, Len(output)) = output
               /\ InTape(position) => output'[Len(output')] = CurCell
       /\ ~ExecOutput => output' = output
       /\ Len(output') = output_count']_vars

\* C10 witness: two Outputs have written two different bytes, the later last.
C10_Witness ==
    /\ Len(output) = 2 /\ output_count = 2
    /\ output[1] # output[2] /\ output[2] = CurCell
    /\ (JustDid("Output") \/ (Running /\ pc > 1 /\ code[pc - 1].op = "Output"))

ExecInput ==
    \/ SimCommand /\ TopNode.cmd = "Input"
    \/ RtInput

\* C11: an Input removes exactly the next unread byte from the input and
\* stores it in tape[pointer]; on an exhausted input it consumes nothing and
\* leaves the cell as it was or sets it to 0.
C11_InputConsumesInOrder ==
    [][ExecInput =>
        IF input # <<>>
        THEN /\ input' = Tail(input)
             /\ InTape(position) => memory' = [memory EXCEPT ![position] = Head(input)]
        ELSE /\ input' = input
             /\ InTape(position)
                    => memory' \in {memory, [memory EXCEPT ![position] = 0]}]_vars

\* The group at pc reads or writes tape[data_ptr].
AccessesCell ==
    Running /\ Op.op \in {"Increment", "Decrement", "Output", "Input", "branch"}

\* C12: no run reaches an error state: every tape access lies inside the
\* tape, and no run ends in a fault.
C12_NoRuntimeErrorState ==
    /\ phase # "crashed"
    /\ AccessesCell => InTape(position)
    /\ (Simulating /\ AtNode /\ TopNode.kind = "Command") => InTape(position)

\* C13: a run starts with a tape of exactly tape_size cells, every cell 0,
\* and the pointer at 0; the tape keeps its length while the run lasts.
C13_FreshInitialState ==
    [][/\ (SimBuildIr \/ RtStart)
            => /\ DOMAIN memory' = 0..(tape_size - 1)
               /\ \A k \in DOMAIN memory' : memory'[k] = 0
               /\ position' = 0
       /\ phase = "run" => DOMAIN memory' = DOMAIN memory]_vars

\* ------------------------------------------- the claims on the parser
CommandChars == {">", "<", "+", "-", ".", ","}

\* How many of the first k characters of s are c.
CountIn(s, k, c) == Cardinality({j \in 1..k : s[j] = c})

\* The '[' that are open after the first k characters of s.
BracketDepth(s, k) == CountIn(s, k, "[") - CountIn(s, k, "]")

\* The index of the first ']' of s that closes nothing, 0 if there is none.
FirstUnmatched(s) ==
    LET U == {k \in 1..Len(s) : BracketDepth(s, k) < 0} IN
        IF U = {} THEN 0 ELSE CHOOSE k \in U : \A j \in U : k <= j

WellBracketed(s) == FirstUnmatched(s) = 0 /\ BracketDepth(s, Len(s)) = 0

\* The 1-based line and column of the k-th character of s (k = Len(s) + 1:
\* of the end of s).
PositionOf(s, k) ==
    LET N == {j \in 1..(k - 1) : s[j] = "\n"}
        last == IF N = {} THEN 0 ELSE CHOOSE j \in N : \A i \in N : i <= j
    IN [line |-> 1 + Cardinality(N), column |-> k - last]

RECURSIVE CountLoops(_)
\* The Loop nodes of an AST, at every depth.
CountLoops(nodes) ==
    IF nodes = <<>> THEN 0
    ELSE (IF Head(nodes).kind = "Loop" THEN 1 + CountLoops(Head(nodes).body) ELSE 0)
            + CountLoops(Tail(nodes))

RECURSIVE LeafDepths(_, _)
\* The Loop-nesting depths of the command leaves of an AST, in order.
LeafDepths(nodes, d) ==
    IF nodes = <<>> THEN <<>>
    ELSE (IF Head(nodes).kind = "Command" THEN <<d>>
          ELSE LeafDepths(Head(nodes).body, d + 1))
            \o LeafDepths(Tail(nodes), d)

RECURSIVE SourceDepths(_, _)
\* The bracket depths of the command characters of s from the k-th on.
SourceDepths(s, k) ==
    IF k > Len(s) THEN <<>>
    ELSE (IF s[k] \in CommandChars THEN <<BracketDepth(s, k - 1)>> ELSE <<>>)
            \o SourceDepths(s, k + 1)

RECURSIVE MaxLoopDepth(_)
MaxLoopDepth(nodes) ==
    IF nodes = <<>> THEN 0
    ELSE Max(IF Head(nodes).kind = "Loop" THEN 1 + MaxLoopDepth(Head(nodes).body) ELSE 0,
             MaxLoopDepth(Tail(nodes)))

MaxBracketDepth(s) ==
    CHOOSE d \in 0..Len(s) :
        /\ \E k \in 0..Len(s) : BracketDepth(s, k) = d
        /\ \A k \in 0..Len(s) : BracketDepth(s, k) <= d

\* s without its comments.
Strip(s) == SelectSeq(s, LAMBDA c : c \in CommandChars \cup {"[", "]"})

\* parse_brainfuck(source) has returned result.
Done == builder = "lexer" /\ result # NoResult

\* C14: parse_brainfuck returns Ok for every well-bracketed source and an
\* error, with no AST, for every other source.
C14_ParseTotality ==
    Done => IF WellBracketed(source) THEN result.kind = "Ok"
            ELSE /\ result.kind \in {"UnmatchedClosingBracket", "UnexpectedEndOfInput"}
                 /\ result.ast = <<>>

\* C14 witness: a source with a loop and a comment has given Ok, and a
\* source with a ']' that closes nothing has then given an error.
C14_Witness ==
    /\ Done /\ earlier # NoCall
    /\ earlier.result.kind = "Ok"
    /\ CountIn(earlier.source, Len(earlier.source), "[") > 0
    /\ CountIn(earlier.source, Len(earlier.source), "x") > 0
    /\ ~WellBracketed(source) /\ result.kind = "UnmatchedClosingBracket"

\* C15: the AST of a well-bracketed source has as many Loop nodes as the
\* source has '['.
C15_LoopCount ==
    (Done /\ result.kind = "Ok")
        => CountLoops(result.ast) = CountIn(source, Len(source), "[")

\* C15 witness: a source with two '[' has given an AST with two Loop nodes.
C15_Witness ==
    Done /\ result.kind = "Ok" /\ CountLoops(result.ast) = 2

\* C16: every command leaf of the AST lies under as many Loop nodes as '['
\* are open at its character, and the deepest Loop nesting is the deepest
\* bracket nesting of the source.
C16_NestingCorrespondence ==
    (Done /\ result.kind = "Ok")
        => /\ LeafDepths(result.ast, 0) = SourceDepths(source, 1)
           /\ MaxLoopDepth(result.ast) = MaxBracketDepth(source)

\* C16 witness: "[+[+-]]" has given Loop[Increment, Loop[Increment, Decrement]].
C16_Witness ==
    /\ Done
    /\ source = <<"[", "+", "[", "+", "-", "]", "]">>
    /\ result = Ok(<<Loop(<<Command("Increment"),
                            Loop(<<Command("Increment"), Command("Decrement")>>)>>)>>)

\* C17: a well-bracketed source and the same source with comment characters
\* put in anywhere give the same result.
C17_CommentInsertionInvariance ==
    (/\ Done /\ earlier # NoCall
     /\ WellBracketed(earlier.source)
     /\ Strip(source) = Strip(earlier.source))
        => result = earlier.result

\* C17 witness: a source has been parsed after the same source without the
\* comment character that stands inside one of its loop bodies.
C17_Witness ==
    /\ Done /\ earlier # NoCall
    /\ source # earlier.source /\ source \in Insertions(earlier.source)
    /\ result.kind = "Ok"
    /\ \E k \in 1..Len(source) :
        /\ source[k] \in CommentChars /\ BracketDepth(source, k) > 0
        /\ earlier.source = SubSeq(source, 1, k - 1) \o SubSeq(source, k + 1, Len(source))

\* C18: a call of parse_brainfuck returns what the first call on that source
\* returned, whatever was parsed in between.
C18_ParseDeterminism ==
    (Done /\ earlier # NoCall /\ source = earlier.source)
        => result = earlier.result

\* C18 witness: a source has been parsed a second time, after a call on a
\* different source, and the call has returned an error beyond line 1 again.
C18_Witness ==
    /\ Done /\ earlier # NoCall
    /\ source = earlier.source /\ earlier.others
    /\ result.kind \in {"UnmatchedClosingBracket", "UnexpectedEndOfInput"}
    /\ result.position.line > 1

\* C19: parse returns UnmatchedClosingBracket exactly when a ']' closes
\* nothing: it stops at the first such ']' without consuming it and reports
\* the line and column of that ']', and no AST.
C19_UnmatchedClosingBracket ==
    Done => /\ result.kind = "UnmatchedClosingBracket" <=> FirstUnmatched(source) # 0
            /\ result.kind = "UnmatchedClosingBracket"
                => /\ result.position = PositionOf(source, FirstUnmatched(source))
                   /\ lexer.chars = SubSeq(source, FirstUnmatched(source), Len(source))
                   /\ result.ast = <<>>

\* C19 witness: a ']' at line 2, column 2 that closes nothing has been
\* reported, with characters behind it left unread.
C19_Witness ==
    /\ Done /\ result = Err("UnmatchedClosingBracket", [line |-> 2, column |-> 2])
    /\ Len(lexer.chars) > 1

\* C20: parse returns UnexpectedEndOfInput exactly when the source ends with
\* a loop body open, with the position one past the last character.
C20_UnexpectedEndOfInput ==
    Done => /\ result.kind = "UnexpectedEndOfInput"
                <=> (FirstUnmatched(source) = 0 /\ BracketDepth(source, Len(source)) > 0)
            /\ result.kind = "UnexpectedEndOfInput"
                => /\ result.position = PositionOf(source, Len(source) + 1)
                   /\ lexer.chars = <<>>
                   /\ result.ast = <<>>

\* C20 witness: a source that ends two loop bodies deep, on its second line,
\* has been reported.
C20_Witness ==
    /\ Done /\ result.kind = "UnexpectedEndOfInput"
    /\ BracketDepth(source, Len(source)) = 2
    /\ result.position.line = 2 /\ result.position.column > 1

\* C21: a source with a ']' that closes nothing gives UnmatchedClosingBracket
\* at the leftmost such ']', whatever stands to the right of it (the same
\* result as any other source with that prefix); UnexpectedEndOfInput is
\* given only when every ']' closes a '[' and some '[' stays open.
C21_LeftmostFailureWins ==
    Done => LET k == FirstUnmatched(source) IN
        /\ k # 0 => result = Err("UnmatchedClosingBracket",
                                 PositionOf(SubSeq(source, 1, k), k))
        /\ (/\ k # 0 /\ earlier # NoCall
            /\ Len(earlier.source) >= k
            /\ SubSeq(earlier.source, 1, k) = SubSeq(source, 1, k))
                => result = earlier.result
        /\ result.kind = "UnexpectedEndOfInput"
                => k = 0 /\ BracketDepth(source, Len(source)) > 0

\* C21 witness: a source with a ']' that closes nothing has been parsed again
\* with a '[' more at its end, which stays open, and has given the same error.
C21_Witness ==
    /\ Done /\ earlier # NoCall
    /\ source = Append(earlier.source, "[")
    /\ FirstUnmatched(source) \in 2..(Len(source) - 1)
    /\ result.kind = "UnmatchedClosingBracket" /\ result = earlier.result

\* The characters of source the lexer has consumed.
NumConsumed == Len(source) - Len(lexer.chars)

\* C22: the position starts at line 1, column 1; a consumed newline adds 1
\* to line and sets column to 1, any other consumed character adds 1 to
\* column; a step that consumes nothing leaves the position alone; so after
\* k characters line is 1 + the newlines among them and column 1 + the
\* characters behind the last of them, and both are at least 1.
C22_PositionTracking ==
    [][/\ ParseBrainfuck => lexer'.position = [line |-> 1, column |-> 1]
       /\ (Parsing /\ lexer'.chars # lexer.chars)
            => /\ lexer.chars # <<>> /\ lexer'.chars = Tail(lexer.chars)
               /\ lexer'.position =
                    IF Head(lexer.chars) = "\n"
                    THEN [line |-> lexer.position.line + 1, column |-> 1]
                    ELSE [line |-> lexer.position.line,
                          column |-> lexer.position.column + 1]
       /\ (Parsing /\ lexer'.chars = lexer.chars) => lexer'.position = lexer.position
       /\ builder = "lexer"
            => /\ lexer'.position = PositionOf(source', NumConsumed' + 1)
               /\ lexer'.position.line >= 1 /\ lexer'.position.column >= 1]_vars

\* C22 witness: parse_loop has consumed a newline and a character behind it.
C22_Witness ==
    /\ Parsing /\ Cur.fn = "parse_loop"
    /\ NumConsumed = 3 /\ source[2] = "\n"
    /\ lexer.position = [line |-> 2, column |-> 2]

\* The character of a command.
as_char(cmd) ==
    CASE cmd = "Right" -> ">"
      [] cmd = "Left" -> "<"
      [] cmd = "Increment" -> "+"
      [] cmd = "Decrement" -> "-"
      [] cmd = "Output" -> "."
      [] cmd = "Input" -> ","

RECURSIVE Unparse(_)
\* An AST written back as text: a leaf as its character, Loop(body) as
\* '[' body ']'.
Unparse(nodes) ==
    IF nodes = <<>> THEN <<>>
    ELSE (IF Head(nodes).kind = "Command" THEN <<as_char(Head(nodes).cmd)>>
          ELSE <<"[">> \o Unparse(Head(nodes).body) \o <<"]">>)
            \o Unparse(Tail(nodes))

\* C23: the AST of a source that parses, written back as text, is the source
\* without its non-command characters.
C23_SourceOrderRoundTrip ==
    (Done /\ result.kind = "Ok") => Unparse(result.ast) = Strip(source)

\* C23 witness: "+-><.," has given Increment, Decrement, Right, Left, Output,
\* Input.
C23_Witness ==
    /\ Done
    /\ source = <<"+", "-", ">", "<", ".", ",">>
    /\ result = Ok(<<Command("Increment"), Command("Decrement"), Command("Right"),
                     Command("Left"), Command("Output"), Command("Input")>>)

\* The slices process_ast_with_lamina and process_loop_with_lamina of
\* ir_builder.rs iterate over are the AST and the bodies of its Loop nodes.
FramesOfAst ==
    \/ stack = <<>>
    \/ /\ stack[1].nodes = ast
       /\ \A k \in 2..Len(stack) :
            LET caller == stack[k - 1] IN
                /\ caller.i \in DOMAIN caller.nodes
                /\ caller.nodes[caller.i].kind = "Loop"
                /\ stack[k].nodes = caller.nodes[caller.i].body

OnlyCellAt(ptr) ==
    /\ DOMAIN memory' = DOMAIN memory
    /\ \A k \in DOMAIN memory : k # ptr => memory'[k] = memory[k]

\* C25: Right and Left change no cell and no output; Increment and Decrement
\* change only the cell at the pointer, not the pointer, not the output;
\* Output changes neither tape nor pointer; Input changes at most the cell at
\* the pointer.
C25_CommandFrameConditions ==
    [][/\ (ExecRight \/ ExecLeft) => (memory' = memory /\ output' = output)
       /\ (ExecIncrement \/ ExecDecrement)
            => (position' = position /\ output' = output /\ OnlyCellAt(position))
       /\ ExecOutput => (memory' = memory /\ position' = position)
       /\ ExecInput => OnlyCellAt(position)]_vars

\* C25 witness: ir_builder.rs has just incremented cell 1 and cell 0 still
\* holds the 1 it held before.
C25_Witness ==
    /\ JustDid("Increment") /\ position = 1
    /\ memory[0] = 1 /\ memory[1] = 1

\* t is what is left of s behind some prefix.
IsSuffix(t, s) == Len(t) <= Len(s) /\ t = SubSeq(s, Len(s) - Len(t) + 1, Len(s))

\* One iteration of the while let of parse or parse_loop.
LexStep == LexCommand \/ LexOpen \/ LexClose \/ LexUnmatched \/ LexSkip \/ LexEnd

\* C26: while parse_brainfuck runs there is a next iteration, and every
\* iteration either consumes exactly the next character or returns; what is
\* unread is always the rest of the source (nothing is read twice), so a call
\* returns within Len(source) + 1 iterations; Ok comes with nothing unread.
C26_ParserSinglePass ==
    /\ [](Parsing => ENABLED LexStep)
    /\ [][/\ Parsing
            => \/ /\ lexer.chars # <<>> /\ lexer'.chars = Tail(lexer.chars)
                  /\ result' = NoResult
               \/ result' # NoResult /\ lexer'.chars = lexer.chars
          /\ IsSuffix(lexer'.chars, source')
          /\ result'.kind = "Ok" => lexer'.chars = <<>>]_vars

\* C26 witness: a call on a source of full length with a loop has returned
\* Ok, with nothing unread.
C26_Witness ==
    /\ Done /\ result.kind = "Ok"
    /\ Len(source) >= MaxLen /\ CountLoops(result.ast) > 0
    /\ lexer.chars = <<>>

\* C27: count_operations and count_nodes give (Command leaves, Loop nodes at
\* every depth); for the AST of a source these are its command characters
\* and its '['.
C27_NodeCounting ==
    (Done /\ result.kind = "Ok")
        => /\ count_operations(result.ast)
                = <<Len(LeafDepths(result.ast, 0)), CountLoops(result.ast)>>
           /\ count_nodes(result.ast) = count_operations(result.ast)
           /\ count_operations(result.ast)
                = <<Cardinality({j \in 1..Len(source) : source[j] \in CommandChars}),
                    CountIn(source, Len(source), "[")>>

\* C27 witness: "[+[+-]]" has been parsed and counts 3 commands and 2 loops.
C27_Witness ==
    /\ Done /\ result.kind = "Ok"
    /\ source = <<"[", "+", "[", "+", "-", "]", "]">>
    /\ count_operations(result.ast) = <<3, 2>>

\* C28: in the IR of lamina_builder.rs no two Loop nodes share a
\* loop_start_N, loop_body_N or loop_end_N label: every label names one block.
C28_LoopLabelsUnique ==
    Running => \A j \in DOMAIN code :
        code[j].op = "block" => Cardinality(Blocks(code[j].kind, code[j].n)) = 1

RECURSIVE Cost(_)
\* The steps build_ir of ir_builder.rs takes over nodes: one per command;
\* for a Loop the call, LoopRepeat passes over its body, a step between two
\* passes, and the return.
Cost(nodes) ==
    IF nodes = <<>> THEN 0
    ELSE (IF Head(nodes).kind = "Command" THEN 1
          ELSE LoopRepeat * (Cost(Head(nodes).body) + 1) + 1)
            + Cost(Tail(nodes))

\* The steps a call frame has before it: the nodes from the from-th on of
\* its pass, the passes that are left, and its return.
FrameRest(f, from) ==
    Cost(SubSeq(f.nodes, from, Len(f.nodes)))
        + (IF f.kind = "loop"
           THEN (LoopRepeat - 1 - f.iter) * (Cost(f.nodes) + 1) + 1
           ELSE 1)

RECURSIVE RankUpTo(_, _)
RankUpTo(st, k) ==
    IF k = 0 THEN 0
    ELSE FrameRest(st[k], IF k = Len(st) THEN st[k].i ELSE st[k].i + 1)
            + RankUpTo(st, k - 1)

\* The steps build_ir has before it, read off the call frames alone.
Rank(st) == RankUpTo(st, Len(st))

\* A step of the traversal of ir_builder.rs.
SimStep == SimCommand \/ SimLoopEnter \/ SimLoopAgain \/ SimLoopReturn \/ SimFinish

\* C29: build_ir of ir_builder.rs ends for every AST: it starts with
\* Cost(ast) + 1 steps before it, a number read off the AST alone and at most
\* size * (LoopRepeat + 1)^depth + 1; while it runs a step is enabled, and
\* every step takes one off the steps that are left, whatever the tape holds.
C29_GenerationTerminates ==
    /\ [](Simulating => ENABLED SimStep)
    /\ [][/\ SimBuildIr
            => /\ Rank(stack') = Cost(ast) + 1
               /\ Cost(ast) <= (count_operations(ast)[1] + count_operations(ast)[2])
                                    * (LoopRepeat + 1) ^ MaxLoopDepth(ast)
          /\ Simulating => Rank(stack') = Rank(stack) - 1
          /\ Rank(stack') >= 0]_vars

\* C29 witness: build_ir of ir_builder.rs is through "+[]", whose canonical
\* execution never ends.
C29_Witness ==
    /\ builder = "ir_builder" /\ phase = "done"
    /\ ast = <<Command("Increment"), Loop(<<>>)>>
    /\ memory[0] = 1

\* C30: when brainfuck_to_binary returns after the compilation, succeeded or
\* failed, "<output_path>.lamina" is there exactly if it was there before,
\* and a file that was there is as it was.
C30_TempFileOwnership ==
    (binary.pc = "returned" /\ binary.result \in {"Ok", "CompileFailed"})
        => /\ lamina_file.exists = binary.before.exists
           /\ binary.before.exists => lamina_file = binary.before

\* ------------------------------------------------------ specifications
\* A run: an AST, a BrainfuckConfig, an input stream, and one of the builders.
Init ==
    /\ builder \in {"ir_builder", "lamina_builder"}
    /\ ast \in Programs
    /\ tape_size \in 1..MaxTape
    /\ input \in (IF UsesInput(ast) THEN Inputs ELSE {<<>>})
    /\ phase = "init"
    /\ memory = <<>>
    /\ position = 0
    /\ output = <<>>
    /\ output_count = 0
    /\ stack = <<>>
    /\ code = <<>>
    /\ pc = 0
    /\ source = <<>>
    /\ lexer = NoLexer
    /\ frames = <<>>
    /\ result = NoResult
    /\ earlier = NoCall
    /\ lamina_file = NoFile
    /\ binary = NoBinaryCall

NextIrBuilder ==
    \/ SimBuildIr
    \/ SimCommand
    \/ SimLoopEnter
    \/ SimLoopAgain
    \/ SimLoopReturn
    \/ SimFinish

NextLaminaBuilder ==
    \/ RtStart
    \/ RtMove
    \/ RtArith
    \/ RtOutput
    \/ RtInput
    \/ RtBranch
    \/ RtJump
    \/ RtBlock
    \/ RtRet
    \/ RtFault

Next ==
    \/ NextIrBuilder
    \/ NextLaminaBuilder

\* Both builders.
Spec == Init /\ [][Next]_vars

\* src/src/lamina_builder/ir_builder.rs alone.
InitIrBuilder == Init /\ builder = "ir_builder"

SpecIrBuilder == InitIrBuilder /\ [][NextIrBuilder]_vars

\* src/src/lamina_builder.rs alone.
InitLaminaBuilder == Init /\ builder = "lamina_builder"

SpecLaminaBuilder == InitLaminaBuilder /\ [][NextLaminaBuilder]_vars

\* src/src/lexer.rs: calls of parse_brainfuck, one after the other.
InitLexer ==
    /\ builder = "lexer"
    /\ ast = <<>>
    /\ tape_size = 1
    /\ input = <<>>
    /\ phase = "init"
    /\ memory = <<>>
    /\ position = 0
    /\ output = <<>>
    /\ output_count = 0
    /\ stack = <<>>
    /\ code = <<>>
    /\ pc = 0
    /\ source = <<>>
    /\ lexer = NoLexer
    /\ frames = <<>>
    /\ result = NoResult
    /\ earlier = NoCall
    /\ lamina_file = NoFile
    /\ binary = NoBinaryCall

NextLexer ==
    \/ ParseBrainfuck
    \/ LexCommand
    \/ LexOpen
    \/ LexClose
    \/ LexUnmatched
    \/ LexSkip
    \/ LexEnd

SpecLexer == InitLexer /\ [][NextLexer]_vars

\* brainfuck_to_binary of lamina_builder/compiler.rs and of lamina_builder.rs.
InitBinary ==
    /\ builder \in {"ir_builder", "lamina_builder"}
    /\ ast \in Programs
    /\ tape_size = 1
    /\ input = <<>>
    /\ phase = "init"
    /\ memory = <<>>
    /\ position = 0
    /\ output = <<>>
    /\ output_count = 0
    /\ stack = <<>>
    /\ code = <<>>
    /\ pc = 0
    /\ source = <<>>
    /\ lexer = NoLexer
    /\ frames = <<>>
    /\ result = NoResult
    /\ earlier = NoCall
    /\ lamina_file \in FilesBefore
    /\ binary = [NoBinaryCall EXCEPT !.pc = "call", !.before = lamina_file]

NextBinary ==
    \/ BinCheck
    \/ BinWrite
    \/ BinWriteFails
    \/ BinKeep
    \/ BinCompile
    \/ BinReturn

SpecBinary == InitBinary /\ [][NextBinary]_vars

====
